---- MODULE Spec2Model ----
(***************************************************************************)
(* A model of the embedded-image crate (src/src/lib.rs): the Image pixel   *)
(* buffer, its constructor from_bytes, the in-place colour conversions,    *)
(* the channel swaps and the resize (scale / bilinear), plus the scalar    *)
(* sRGB transfer curves.                                                   *)
(*                                                                         *)
(* Numbers.                                                                *)
(*  - u32 products are computed on base-256 limbs (little endian), so the  *)
(*    true product, the wrapped product (release build) and the overflow   *)
(*    flag (debug build: panic) of `width * height * 4` are all exact.     *)
(*  - f32 is modelled as a signed fixed-point number: the integer v stands *)
(*    for v/u, where u is the resolution (Unit for pixel data, CurveUnit   *)
(*    for the scalar curves).  Every product and quotient is truncated     *)
(*    toward zero, which like IEEE rounding is symmetric in the sign.      *)
(*    f32's own rounding error (2^-24 relative) is not modelled.           *)
(***************************************************************************)
EXTENDS Integers, Sequences, FiniteSets, TLC

VARIABLES
    image,      \* the Image: NoImage, or [data |-> Seq(WorkPixel), res |-> <<w, h>>]
    outcome,    \* how the last call ended: "none", "ok", "panic" or "ub"
    op,         \* the last call: [name, bytes, arg]
    build,      \* "debug" (overflow checks on) or "release" (u32 wraps)
    nread,      \* from_bytes: the pixel count handed to from_raw_parts (limbs)
    writes,     \* scale: how many destination pixels the loop wrote into `out`
    nops,       \* calls made on the image so far
    nconv,      \* matrix conversions made so far
    chan,       \* scalar curve check: the current channel value
    chan0,      \* scalar curve check: the value the round trip started from
    stage       \* scalar curve check: "off", "in", "linear" or "out"

vars == <<image, outcome, op, build, nread, writes, nops, nconv, chan, chan0, stage>>

----------------------------------------------------------------------------
(* Bounds of the model *)

\* resolution of the fixed-point stand-in for f32 pixel channels
Unit == 100
\* resolution of the fixed-point stand-in for f32 in the scalar curve check
CurveUnit == 10000000
\* the scalar curve check samples [0,1] on a grid of CurveSteps + 1 points
CurveSteps == 200
\* longest input, in whole pixels
MaxPixels == 4
\* up to MaxTail stray bytes follow the whole pixels of an input
MaxTail == 2
\* widths and heights 0..MaxDim (plus BigDims for from_bytes)
MaxDim == 3
\* calls made on one image
MaxOps == 2
\* matrix conversions made on one image (each can grow a channel 70-fold)
MaxConv == 1

\* dimensions whose products leave the u32 range
BigDims == {32768, 65536}

Dims == 0..MaxDim

\* RGBA8888 input pixels the inputs are built from
Palette == {<<255, 0, 0, 255>>, <<0, 128, 255, 64>>}

NoImage == [data |-> <<>>, res |-> <<-1, -1>>]

NoOp == [name |-> "none", bytes |-> <<>>, arg |-> <<0, 0>>]

----------------------------------------------------------------------------
(* Integer helpers *)

Abs(x) == IF x < 0 THEN -x ELSE x

Sign(x) == IF x < 0 THEN -1 ELSE 1

Max(a, b) == IF a >= b THEN a ELSE b

Min(a, b) == IF a <= b THEN a ELSE b

\* floor(v * n / d) for v, n >= 0 and d > 0 without forming v * n
MulDivNat(v, n, d) == (v \div d) * n + ((v % d) * n) \div d

\* v * n / d truncated toward zero, for d > 0
MulDiv(v, n, d) ==
    Sign(v) * Sign(n) * MulDivNat(Max(Abs(v), Abs(n)), Min(Abs(v), Abs(n)), d)

----------------------------------------------------------------------------
(* u32 / usize arithmetic on base-256 limbs, least significant first *)

\* the four limbs of a u32 below 2^31
ToLimbs(n) == [i \in 1..4 |-> (n \div (256 ^ (i - 1))) % 256]

RECURSIVE ColumnSum(_, _, _, _)
\* the sum of a[i] * b[k + 1 - i] over i = 1..n
ColumnSum(a, b, k, n) ==
    IF n = 0 THEN 0
    ELSE (IF k + 1 - n \in 1..Len(b) THEN a[n] * b[k + 1 - n] ELSE 0)
         + ColumnSum(a, b, k, n - 1)

RECURSIVE Propagate(_, _, _, _)
\* limbs k.. of the product a * b, given the carry into column k
Propagate(a, b, k, carry) ==
    IF k > Len(a) + Len(b) THEN <<>>
    ELSE LET t == ColumnSum(a, b, k, Len(a)) + carry
         IN  <<t % 256>> \o Propagate(a, b, k + 1, t \div 256)

\* the exact product of two limb sequences (Len(a) + Len(b) limbs)
MulLimbs(a, b) == Propagate(a, b, 1, 0)

\* the limbs above the low n are all zero
FitsIn(p, n) == \A i \in (n + 1)..Len(p) : p[i] = 0

\* u32 `*`: the wrapped product and whether the exact product left the range
U32Mul(a, b) ==
    LET p == MulLimbs(a, b)
    IN  [val |-> SubSeq(p, 1, 4), overflow |-> ~FitsIn(p, 4)]

\* the value of a limb sequence when it is below 2^31, else -1
LimbsToNat(p) ==
    IF FitsIn(p, 4) /\ p[4] < 128
    THEN p[1] + 256 * p[2] + 65536 * p[3] + 16777216 * p[4]
    ELSE -1

----------------------------------------------------------------------------
(* f32 as fixed point with resolution u: the integer v stands for v / u *)

\* a * b
FMul(a, b, u) == MulDiv(a, b, u)

\* a / b, for b # 0
FDiv(a, b, u) == Sign(b) * MulDiv(a, u, Abs(b))

\* `n as f32` for an integer n
AsF32(n, u) == n * u

----------------------------------------------------------------------------
(* The scalar transfer curves, lib.rs 261-283 (the powf calls are commented *)
(* out in the source, so each upper branch is affine)                       *)

\* fn srgb_to_rgb(f): if f <= C { f / PHI } else { (f + A) / (1. + A) }
srgb_to_rgb(f, u) ==
    IF f <= MulDivNat(u, 4045, 100000)
    THEN MulDiv(f, 100, 1292)
    ELSE MulDiv(f + MulDivNat(u, 55, 1000), 1000, 1055)

\* fn rgb_to_srgb(f): if f <= C { PHI * f } else { (1. + A) * f }
rgb_to_srgb(f, u) ==
    IF f <= MulDivNat(u, 31308, 10000000)
    THEN MulDiv(f, 1292, 100)
    ELSE MulDiv(f, 1055, 1000)

----------------------------------------------------------------------------
(* Image::from_bytes, lib.rs 46-62 *)

\* the bytes of a sequence of RawPixel, in order
Flatten(ps) == [j \in 1..(4 * Len(ps)) |-> ps[((j - 1) \div 4) + 1][((j - 1) % 4) + 1]]

\* k stray bytes
Stray(k) == [j \in 1..k |-> 7]

PixelSeqs == UNION {[1..n -> Palette] : n \in 0..MaxPixels}

\* the byte slices from_bytes is called with
Inputs == {Flatten(ps) \o Stray(k) : ps \in PixelSeqs, k \in 0..MaxTail}

\* `width * height * 4` and `width * height` in u32: the wrapped values and
\* whether either product overflowed
SizeOf(res) ==
    LET wh   == U32Mul(ToLimbs(res[1]), ToLimbs(res[2]))
        size == U32Mul(wh.val, ToLimbs(4))
    IN  [len |-> wh.val, size |-> size.val, overflow |-> wh.overflow \/ size.overflow]

\* CastChannel with the commented-out scaling of line 57 put back
CastChannelScaled(f) == AsF32(f, Unit) \div 255

\* `f as f32` for a byte f (the division by 255 is commented out, line 57)
CastChannel(f) == AsF32(f, Unit)

\* from_raw_parts(data, len).iter().map(|f| f.map(|f| f as f32)).collect()
ReadPixels(bytes, len) ==
    [i \in 1..len |-> [c \in 1..4 |-> CastChannel(bytes[4 * (i - 1) + c])]]

\* the len * 4 bytes from_raw_parts covers all lie inside the slice
ReadInBounds(bytes, len) ==
    LET n == LimbsToNat(MulLimbs(len, <<4>>))
    IN  n # -1 /\ n <= Len(bytes)

\* what an out-of-bounds read can leave behind: a crash (no image), or an image
\* of the requested resolution over whatever memory held (its leading pixels)
AfterOutOfBounds(res) ==
    {NoImage} \cup {[data |-> ReadPixels(Flatten(ps), Len(ps)), res |-> res] : ps \in PixelSeqs}

FromBytes(bytes, res) ==
    /\ stage = "off"
    /\ outcome = "none"
    /\ op' = [name |-> "from_bytes", bytes |-> bytes, arg |-> res]
    /\ LET s == SizeOf(res)
       IN  IF (build = "debug" /\ s.overflow) \/ ToLimbs(Len(bytes)) # s.size
           THEN \* arithmetic overflow panic, or assert_eq!(data.len(), size)
                /\ outcome' = "panic"
                /\ image' = NoImage
                /\ nread' = ToLimbs(0)
           ELSE IF ReadInBounds(bytes, s.len)
           THEN /\ outcome' = "ok"
                /\ image' = [data |-> ReadPixels(bytes, LimbsToNat(s.len)), res |-> res]
                /\ nread' = s.len
           ELSE /\ outcome' = "ub"
                /\ image' \in AfterOutOfBounds(res)
                /\ nread' = s.len
    /\ UNCHANGED <<build, writes, nops, nconv, chan, chan0, stage>>

----------------------------------------------------------------------------
(* The in-place methods, lib.rs 104-181 *)

\* a call on the image that cannot fail and leaves `data` in self.data
Method(name, data) ==
    /\ stage = "off"
    /\ outcome = "ok"
    /\ nops < MaxOps
    /\ image' = [image EXCEPT !.data = data]
    /\ op' = [name |-> name, bytes |-> <<>>, arg |-> <<0, 0>>]
    /\ nops' = nops + 1
    /\ UNCHANGED <<outcome, build, nread, writes, chan, chan0, stage>>

\* const CIE in Image::srgb_to_rgb, row by row, in 1/10000
SrgbCIE == <<<<4124, 3576, 1805>>, <<2126, 7152, 722>>, <<193, 1192, 9505>>>>

\* const CIE in Image::rgb_to_srgb, row by row, in 1/10000
RgbCIE == <<<<32406, -15372, -4986>>, <<-9689, 18758, 415>>, <<557, -2040, 10570>>>>

\* cie * v for a Matrix3 (in 1/10000) and a Matrix3x1
MatVec(m, v) ==
    [i \in 1..3 |-> MulDiv(v[1], m[i][1], 10000) + MulDiv(v[2], m[i][2], 10000)
                    + MulDiv(v[3], m[i][3], 10000)]

\* *p = [p[0], p[1], p[2], p[3]]
SwapEndianPixel(p) == <<p[1], p[2], p[3], p[4]>>

\* *p = [p[2], p[1], p[0], p[3]]
SwapRgbPixel(p) == <<p[3], p[2], p[1], p[4]>>

\* SrgbToRgbPixel with the curve mapped over all four channels
SrgbToRgbPixelAlpha(p) ==
    LET n == MatVec(SrgbCIE, [i \in 1..3 |-> srgb_to_rgb(p[i], Unit)])
    IN  <<n[1], n[2], n[3], srgb_to_rgb(p[4], Unit)>>

\* q = the first three channels; n = cie * q.map(srgb_to_rgb); *p = [n[0], n[1], n[2], p[3]]
SrgbToRgbPixel(p) ==
    LET n == MatVec(SrgbCIE, [i \in 1..3 |-> srgb_to_rgb(p[i], Unit)])
    IN  <<n[1], n[2], n[3], p[4]>>

\* q = cie * the first three channels; n = q.map(rgb_to_srgb); *p = [n[0], n[1], n[2], p[3]]
RgbToSrgbPixel(p) ==
    LET q == MatVec(RgbCIE, p)
    IN  <<rgb_to_srgb(q[1], Unit), rgb_to_srgb(q[2], Unit), rgb_to_srgb(q[3], Unit), p[4]>>

\* *p = [p[0], p[1], p[2], p[3]] (every powf is commented out)
GammaToRgbPixel(p) == <<p[1], p[2], p[3], p[4]>>

\* *p = [p[0], p[1], p[2], p[3]] (every powf is commented out)
RgbToGammaPixel(p) == <<p[1], p[2], p[3], p[4]>>

\* for p in &mut self.data { *p = ... }
SwapEndian == Method("swap_endian", [i \in 1..Len(image.data) |-> SwapEndianPixel(image.data[i])]) /\ UNCHANGED nconv

SwapRgb == Method("swap_rgb", [i \in 1..Len(image.data) |-> SwapRgbPixel(image.data[i])]) /\ UNCHANGED nconv

SrgbToRgb == nconv < MaxConv /\ Method("srgb_to_rgb", [i \in 1..Len(image.data) |-> SrgbToRgbPixel(image.data[i])]) /\ nconv' = nconv + 1

RgbToSrgb == nconv < MaxConv /\ Method("rgb_to_srgb", [i \in 1..Len(image.data) |-> RgbToSrgbPixel(image.data[i])]) /\ nconv' = nconv + 1

GammaToRgb == Method("gamma_to_rgb", [i \in 1..Len(image.data) |-> GammaToRgbPixel(image.data[i])]) /\ UNCHANGED nconv

RgbToGamma == Method("rgb_to_gamma", [i \in 1..Len(image.data) |-> RgbToGammaPixel(image.data[i])]) /\ UNCHANGED nconv

----------------------------------------------------------------------------
(* Image::scale and bilinear, lib.rs 78-102 and 222-259.  Within the model's *)
(* dimensions none of their u32 sums and products leaves the u32 range.      *)

\* a * q for a scalar a and a Matrix4x1 q
VScale(a, q) == [c \in 1..4 |-> FMul(a, q[c], Unit)]

VAdd(p, q) == [c \in 1..4 |-> p[c] + q[c]]

\* `f as u32` for a non-negative f32
AsU32(f) == f \div Unit

\* pixels[i]: the pixel, or a panic when i is out of range
Index(pixels, i) ==
    IF i < Len(pixels) THEN [panic |-> FALSE, px |-> pixels[i + 1]]
    ELSE [panic |-> TRUE, px |-> <<>>]

\* fn bilinear(xy, scale, src, pixels): [panic, px]
bilinear(xy, scale, src, pixels) ==
    LET x  == xy[1]
        y  == xy[2]
        width == src[1]
        x_ == FDiv(AsF32(x, Unit), scale[1], Unit)
        y_ == FDiv(AsF32(y, Unit), scale[2], Unit)
        alpha == Index(pixels, (y * width) + x)
        x1 == AsF32(0, Unit)
        y1 == AsF32(0, Unit)
        x2 == AsF32(0, Unit)
        y2 == AsF32(0, Unit)
        Q11 == Index(pixels, (AsU32(y1) * width) + AsU32(x1))
        Q12 == Index(pixels, (AsU32(y1) * width) + AsU32(x2))
        Q21 == Index(pixels, (AsU32(y2) * width) + AsU32(x1))
        Q22 == Index(pixels, (AsU32(y2) * width) + AsU32(x2))
        P1  == IF x1 = x2 THEN Q11.px
               ELSE VAdd(VScale(x2 - x_, Q11.px), VScale(x_ - x1, Q12.px))
        P2  == IF x1 = x2 THEN Q22.px
               ELSE VAdd(VScale(x2 - x_, Q12.px), VScale(x_ - x1, Q22.px))
        P   == VAdd(VScale(y2 - y_, P1), VScale(y_ - y1, P2))
    IN  IF alpha.panic \/ Q11.panic \/ Q12.panic \/ Q21.panic \/ Q22.panic
        THEN [panic |-> TRUE, px |-> <<>>]
        ELSE [panic |-> FALSE, px |-> P]

RECURSIVE ScaleLoop(_, _, _, _)
\* the two loops of scale from destination index k on: [panic, out, writes]
ScaleLoop(k, out, new, img) ==
    IF k = new[1] * new[2] THEN [panic |-> FALSE, out |-> out, writes |-> k]
    ELSE LET x == k % new[1]
             y == k \div new[1]
             x_scale == FDiv(AsF32(new[1], Unit), AsF32(img.res[1], Unit), Unit)
             y_scale == FDiv(AsF32(new[2], Unit), AsF32(img.res[2], Unit), Unit)
             r == bilinear(<<x, y>>, <<x_scale, y_scale>>, img.res, img.data)
             index == (y * new[1]) + x
         IN  IF r.panic THEN [panic |-> TRUE, out |-> out, writes |-> k]
             ELSE ScaleLoop(k + 1, [out EXCEPT ![index + 1] = r.px], new, img)

\* vec![[0.; 4]; (new_height * new_width) as usize]
ZeroVec(new) == [i \in 1..(new[1] * new[2]) |-> <<0, 0, 0, 0>>]

\* ScaleFinish for a loop that writes into self.data instead of a local
ScaleFinishInPlace(img, new, loop) ==
    IF loop.panic THEN [data |-> loop.out, res |-> img.res]
    ELSE [data |-> loop.out, res |-> new]

\* the image a call of scale that got past the early return leaves behind:
\* `out` is a local, so a panic in the loop leaves self as it was
ScaleFinish(img, new, loop) ==
    IF loop.panic THEN img ELSE [data |-> loop.out, res |-> new]

\* SameResolution with the requested width and height swapped
SameResolutionSwapped(res, new) == res = <<new[2], new[1]>>

\* the early return of scale when the resolution is already the requested one
SameResolution(res, new) == res = new

Scale(new) ==
    /\ stage = "off"
    /\ outcome = "ok"
    /\ nops < MaxOps
    /\ op' = [name |-> "scale", bytes |-> <<>>, arg |-> new]
    /\ nops' = nops + 1
    /\ IF SameResolution(image.res, new)
       THEN /\ image' = image
            /\ outcome' = "ok"
            /\ writes' = 0
       ELSE LET loop == ScaleLoop(0, ZeroVec(new), new, image)
            IN  /\ image' = ScaleFinish(image, new, loop)
                /\ outcome' = IF loop.panic THEN "panic" ELSE "ok"
                /\ writes' = loop.writes
    /\ UNCHANGED <<build, nread, nconv, chan, chan0, stage>>

----------------------------------------------------------------------------

Init ==
    /\ image = NoImage
    /\ outcome = "none"
    /\ op = NoOp
    /\ build \in {"debug", "release"}
    /\ nread = ToLimbs(0)
    /\ writes = 0
    /\ nops = 0
    /\ nconv = 0
    /\ chan = 0
    /\ chan0 = 0
    /\ stage = "off"

Next ==
    \/ /\ outcome = "none"
       /\ \E bytes \in Inputs, w \in Dims \cup BigDims, h \in Dims \cup BigDims :
             FromBytes(bytes, <<w, h>>)
    \/ SwapEndian
    \/ SwapRgb
    \/ SrgbToRgb
    \/ RgbToSrgb
    \/ GammaToRgb
    \/ RgbToGamma
    \/ /\ outcome = "ok"
       /\ nops < MaxOps
       /\ \E nw \in Dims, nh \in Dims : Scale(<<nw, nh>>)

Spec == Init /\ [][Next]_vars

----------------------------------------------------------------------------
(* The scalar round trip srgb_to_rgb then rgb_to_srgb on channel values of *)
(* [0,1], as its own specification                                          *)

\* the sampled channel values: a grid over [0,1] and the two values around
\* the breakpoint C = 0.04045 of srgb_to_rgb
CurveInputs ==
    {MulDivNat(CurveUnit, k, CurveSteps) : k \in 0..CurveSteps}
    \cup {MulDivNat(CurveUnit, 4045, 100000), MulDivNat(CurveUnit, 4045, 100000) + 1}

CurveInit ==
    /\ image = NoImage
    /\ outcome = "none"
    /\ op = NoOp
    /\ build = "release"
    /\ nread = ToLimbs(0)
    /\ writes = 0
    /\ nops = 0
    /\ nconv = 0
    /\ chan0 \in CurveInputs
    /\ chan = chan0
    /\ stage = "in"

CurveDecode ==
    /\ stage = "in"
    /\ chan' = srgb_to_rgb(chan, CurveUnit)
    /\ stage' = "linear"
    /\ UNCHANGED <<image, outcome, op, build, nread, writes, nops, nconv, chan0>>

CurveEncode ==
    /\ stage = "linear"
    /\ chan' = rgb_to_srgb(chan, CurveUnit)
    /\ stage' = "out"
    /\ UNCHANGED <<image, outcome, op, build, nread, writes, nops, nconv, chan0>>

CurveNext == CurveDecode \/ CurveEncode

SpecCurve == CurveInit /\ [][CurveNext]_vars

----------------------------------------------------------------------------
(* Properties *)

\* data.len() equals the exact product width * height * 4
ExactSize(bytes, res) ==
    LimbsToNat(MulLimbs(MulLimbs(ToLimbs(res[1]), ToLimbs(res[2])), <<4>>)) = Len(bytes)

\* n is the exact product width * height
ExactCount(n, res) ==
    LET p == MulLimbs(ToLimbs(res[1]), ToLimbs(res[2]))
    IN  FitsIn(p, 4) /\ SubSeq(p, 1, 4) = n

Conversions == {"srgb_to_rgb", "rgb_to_srgb", "gamma_to_rgb", "rgb_to_gamma"}

\* C1: from_bytes fails, and leaves no buffer, whenever the byte count differs
\* from width * height * 4.
C1_InvalidLengthFails ==
    (op.name = "from_bytes" /\ ~ExactSize(op.bytes, op.arg))
        => (outcome = "panic" /\ image = NoImage)

\* C2 as stated: for a valid input, pixel i channel c is byte 4i+c divided by
\* 255 (to within the resolution of the number model).
C2_ChannelsDividedBy255 ==
    (op.name = "from_bytes" /\ ExactSize(op.bytes, op.arg))
        => /\ outcome = "ok"
           /\ 4 * Len(image.data) = Len(op.bytes)
           /\ \A i \in 1..Len(image.data) : \A c \in 1..4 :
                 Abs(255 * image.data[i][c] - Unit * op.bytes[4 * (i - 1) + c]) < 255

\* C2 as amended: for a valid input (fewer than 2^32 bytes), construction
\* yields one pixel per 4-byte group in input order, and pixel i channel c is
\* byte 4i+c cast to f32 unscaled (255 becomes 255.0, 0 becomes 0.0).
C2_ChannelsCastUnscaled ==
    (op.name = "from_bytes" /\ ExactSize(op.bytes, op.arg))
        => /\ outcome = "ok"
           /\ 4 * Len(image.data) = Len(op.bytes)
           /\ \A i \in 1..Len(image.data) : \A c \in 1..4 :
                 image.data[i][c] = Unit * op.bytes[4 * (i - 1) + c]

\* C2 witness: [255,0,0,255] at resolution (1,1) was constructed and holds the
\* single pixel (255.0, 0.0, 0.0, 255.0).
C2_Witness ==
    /\ op.name = "from_bytes"
    /\ op.bytes = <<255, 0, 0, 255>>
    /\ op.arg = <<1, 1>>
    /\ outcome = "ok"
    /\ image.data = <<<<255 * Unit, 0, 0, 255 * Unit>>>>

\* C3: after a successful construction and any calls, the number of stored
\* pixels is width * height of the current resolution, and a completed resize
\* to (nw, nh) reports resolution (nw, nh).
C3_ShapeInvariant ==
    (image # NoImage /\ outcome # "ub")
        => /\ ExactCount(ToLimbs(Len(image.data)), image.res)
           /\ (op.name = "scale" /\ outcome = "ok") => image.res = op.arg

\* C4: every colour conversion leaves the alpha channel of every pixel (and
\* the number of pixels) as it was.
C4_AlphaUnchanged ==
    [][op'.name \in Conversions
         => /\ Len(image'.data) = Len(image.data)
            /\ \A i \in 1..Len(image.data) : image'.data[i][4] = image.data[i][4]]_vars

\* C4 witness: srgb_to_rgb has run on a buffer whose first pixel came from
\* (0,128,255,64): its colour channels moved and its alpha is still 64.
C4_Witness ==
    /\ op.name = "srgb_to_rgb"
    /\ Len(image.data) >= 1
    /\ image.data[1][4] = 64 * Unit
    /\ image.data[1][3] # 255 * Unit
    /\ image.data[1][3] > 0

\* the claimed bilinear value at destination (x, y), channel c, times DX * DY
BilinearNumerator(img, new, x, y, c) ==
    LET w   == img.res[1]
        h   == img.res[2]
        DX  == IF new[1] = 1 THEN 1 ELSE new[1] - 1
        DY  == IF new[2] = 1 THEN 1 ELSE new[2] - 1
        sxn == IF new[1] = 1 THEN 0 ELSE x * (w - 1)
        syn == IF new[2] = 1 THEN 0 ELSE y * (h - 1)
        x0  == sxn \div DX
        y0  == syn \div DY
        x1  == Min(x0 + 1, w - 1)
        y1  == Min(y0 + 1, h - 1)
        fx  == sxn % DX
        fy  == syn % DY
        px(a, b) == img.data[b * w + a + 1][c]
    IN  (DX - fx) * (DY - fy) * px(x0, y0) + fx * (DY - fy) * px(x1, y0)
        + (DX - fx) * fy * px(x0, y1) + fx * fy * px(x1, y1)

\* C5: a resize of a well-formed buffer to a different resolution with both
\* dimensions >= 1 completes, and every destination pixel is the bilinear
\* interpolation of its four source neighbours, per channel.
C5_BilinearValues ==
    [][(/\ op'.name = "scale"
        /\ op'.arg # image.res
        /\ op'.arg[1] >= 1 /\ op'.arg[2] >= 1
        /\ image.res[1] \in 1..(MaxDim + 1) /\ image.res[2] \in 1..(MaxDim + 1)
        /\ Len(image.data) = image.res[1] * image.res[2])
         => /\ outcome' = "ok"
            /\ Len(image'.data) = op'.arg[1] * op'.arg[2]
            /\ \A x \in 0..(op'.arg[1] - 1) : \A y \in 0..(op'.arg[2] - 1) : \A c \in 1..4 :
                  LET D == (IF op'.arg[1] = 1 THEN 1 ELSE op'.arg[1] - 1)
                           * (IF op'.arg[2] = 1 THEN 1 ELSE op'.arg[2] - 1)
                  IN  Abs(D * image'.data[y * op'.arg[1] + x + 1][c]
                          - BilinearNumerator(image, op'.arg, x, y, c)) <= D]_vars

\* C6: for c in [0,1], srgb_to_rgb then rgb_to_srgb returns c within 1e-5.
C6_RoundTrip ==
    stage = "out" => Abs(chan - chan0) <= CurveUnit \div 100000

\* C7: a resize to the current resolution leaves pixels, order and resolution
\* as they were.
C7_ResizeIdentity ==
    [][(op'.name = "scale" /\ op'.arg = image.res)
         => (image' = image /\ outcome' = "ok")]_vars

\* C7 witness: scale was called with the resolution of a buffer that still
\* holds its constructed, non-zero first pixel.
C7_Witness ==
    /\ op.name = "scale"
    /\ outcome = "ok"
    /\ op.arg = image.res
    /\ writes = 0
    /\ Len(image.data) >= 1
    /\ image.data[1][4] # 0

\* C8: no buffer has a zero width or height, and a resize to a resolution with
\* a zero dimension is rejected and leaves the buffer as it was.
C8_ZeroResolutionRejected ==
    /\ [](image # NoImage => (image.res[1] # 0 /\ image.res[2] # 0))
    /\ [][(op'.name = "scale" /\ (op'.arg[1] = 0 \/ op'.arg[2] = 0))
            => (outcome' # "ok" /\ image' = image)]_vars

\* C8 witness: a buffer constructed with one pixel was resized to (0, 1) and
\* the call completed, leaving an empty buffer of width 0.
C8_Witness ==
    /\ op.name = "scale"
    /\ outcome = "ok"
    /\ nread = ToLimbs(1)
    /\ image = [data |-> <<>>, res |-> <<0, 1>>]

\* C9: a call of scale either completes, with the resolution updated and a
\* buffer of new_width * new_height pixels all written by the loop (none when
\* the early return left the buffer alone), or panics with the pixels and the
\* resolution exactly as before the call.
C9_ResizeAllOrNothing ==
    [][op'.name = "scale"
         => \/ /\ outcome' = "ok"
               /\ image'.res = op'.arg
               /\ Len(image'.data) = op'.arg[1] * op'.arg[2]
               /\ IF op'.arg = image.res THEN image' = image
                  ELSE writes' = op'.arg[1] * op'.arg[2]
            \/ /\ outcome' = "panic"
               /\ image' = image]_vars

\* C9 witness: scale panicked on an out-of-range pixel access after it had
\* already written destination pixels, and the buffer is still non-empty.
C9_Witness ==
    /\ op.name = "scale"
    /\ outcome = "panic"
    /\ writes >= 1
    /\ Len(image.data) >= 1
    /\ image.data[1][4] # 0

\* C10: from_bytes either fails or reads exactly width * height pixels, all of
\* whose bytes lie inside the input slice.
C10_ReadWithinInput ==
    (op.name = "from_bytes" /\ outcome # "panic")
        => /\ ExactCount(nread, op.arg)
           /\ ReadInBounds(op.bytes, nread)

====
